---- MODULE Spec2Model ----
(***************************************************************************)
(* Weather / air-quality / packing-advice aggregation servers.             *)
(*                                                                         *)
(* src/bk-server.js     : /weather3, /air3, /pack                          *)
(* src/unnamed/part_001 : /api/weather, /owm/air, /api/day_summary_city    *)
(*                                                                         *)
(* One request is modelled at a time (requests share no state).  A handler *)
(* is cut at its awaits: each action is the synchronous code that runs     *)
(* when the awaited upstream call settles, and the upstream outcome is an  *)
(* input of that action.                                                   *)
(*                                                                         *)
(* Numbers are integers in hundredths (7.96 is 796).  A JavaScript value   *)
(* is a record [k, v]: k is its kind, v its number when k = "num".         *)
(***************************************************************************)
EXTENDS Integers, Sequences, FiniteSets, TLC

-----------------------------------------------------------------------------
(* JavaScript values and the operators the handlers apply to them *)

Num(x) == [k |-> "num", v |-> x]
NaN == [k |-> "nan", v |-> 0]
Null == [k |-> "null", v |-> 0]
Undef == [k |-> "undef", v |-> 0]
Str == [k |-> "str", v |-> 0]
Obj == [k |-> "obj", v |-> 0]

\* a ?? b
Nullish(x) == x.k \in {"null", "undef"}
Coalesce(a, b) == IF Nullish(a) THEN b ELSE a

\* a || b
Truthy(x) == CASE x.k = "num" -> x.v # 0
               [] x.k \in {"str", "obj"} -> TRUE
               [] OTHER -> FALSE
OrElse(a, b) == IF Truthy(a) THEN a ELSE b

\* typeof x === "number"
IsNumberType(x) == x.k \in {"num", "nan"}

\* Number(x); "str" stands for a non-numeric string
ToNumber(x) == CASE x.k = "num" -> x
                 [] x.k = "null" -> Num(0)
                 [] OTHER -> NaN

\* (a + b) / 2 on upstream values: a string or object operand makes a string
\* concatenation, whose half is NaN for the non-numeric strings modelled here
HalfSum(a, b) ==
    IF a.k \in {"num", "null"} /\ b.k \in {"num", "null"}
    THEN LET s == ToNumber(a).v + ToNumber(b).v
         IN  \* hundredths: keep the half exact when s is even, else round the
             \* half-hundredth up (it never lands on a tie of toFixed(1))
             Num(IF s >= 0 THEN (s + 1) \div 2 ELSE -((-s) \div 2))
    ELSE NaN

Abs(n) == IF n < 0 THEN -n ELSE n

\* round p/q (q > 0) to the nearest multiple of 10, ties away from zero, as
\* toFixed(1) does on the exact quotient; a binary double that stands for a
\* decimal tie (15.95) may lie on either side of it
RoundTenRat(p, q) ==
    LET a == Abs(p)
        n == (2 * a + 10 * q) \div (20 * q)
    IN  IF p < 0 THEN -(10 * n) ELSE 10 * n

\* +x.toFixed(1): one decimal, i.e. a multiple of 10 hundredths
ToFixed1(x) == IF x.k = "num" THEN Num(RoundTenRat(x.v, 1)) ELSE NaN

\* JSON.stringify of a number-or-null field: NaN is written as null
ToJSON(x) == IF x.k = "nan" THEN Null ELSE x

-----------------------------------------------------------------------------
(* Dates: new Date(), getUTC*, setUTCDate, toISOString *)

\* seconds in a day
DayOf == 24 * 3600

IsLeap(y) == (y % 4 = 0 /\ y % 100 # 0) \/ y % 400 = 0

DaysInMonth(y, m) ==
    CASE m = 2 -> IF IsLeap(y) THEN 29 ELSE 28
      [] m \in {4, 6, 9, 11} -> 30
      [] OTHER -> 31

\* the UTC calendar date of day number z (days since 1970-01-01), as a Date
\* object's getUTCFullYear / getUTCMonth + 1 / getUTCDate give it
CivilFromDays(days) ==
    LET z == days + 719468
        era == z \div 146097
        doe == z - era * 146097
        yoe == (doe - doe \div 1460 + doe \div 36524 - doe \div 146096) \div 365
        doy == doe - (365 * yoe + yoe \div 4 - yoe \div 100)
        mp == (5 * doy + 2) \div 153
        d == doy - (153 * mp + 2) \div 5 + 1
        m == IF mp < 10 THEN mp + 3 ELSE mp - 9
        y == yoe + era * 400 + (IF m <= 2 THEN 1 ELSE 0)
    IN  [y |-> y, m |-> m, d |-> d]

\* Date.setUTCDate(d) with d past the end of the month: the date rolls over
RECURSIVE NormalizeYMD(_, _, _)
NormalizeYMD(y, m, d) ==
    IF d <= DaysInMonth(y, m) THEN [y |-> y, m |-> m, d |-> d]
    ELSE IF m = 12 THEN NormalizeYMD(y + 1, 1, d - DaysInMonth(y, m))
    ELSE NormalizeYMD(y, m + 1, d - DaysInMonth(y, m))

DigitChar == <<"0", "1", "2", "3", "4", "5", "6", "7", "8", "9">>

\* String(n) for n >= 0, as a sequence of characters
RECURSIVE NumStr(_)
NumStr(n) == IF n < 10 THEN <<DigitChar[n + 1]>>
             ELSE NumStr(n \div 10) \o <<DigitChar[(n % 10) + 1]>>

\* s.padStart(len, ch)
RECURSIVE PadStart(_, _, _)
PadStart(s, len, ch) == IF Len(s) >= len THEN s ELSE PadStart(<<ch>> \o s, len, ch)

\* `${y}-${m}-${day}` with m and day padded to 2
FormatYMD(c) ==
    NumStr(c.y) \o <<"-">> \o PadStart(NumStr(c.m), 2, "0")
                \o <<"-">> \o PadStart(NumStr(c.d), 2, "0")

\* new Date(dt * 1000).toISOString().slice(0, 10), dt in seconds
ISODate(dt) ==
    LET c == CivilFromDays(dt \div DayOf)
    IN  PadStart(NumStr(c.y), 4, "0") \o <<"-">> \o PadStart(NumStr(c.m), 2, "0")
                \o <<"-">> \o PadStart(NumStr(c.d), 2, "0")

\* nextNDatesUTC(n) of bk-server.js at clock value t (seconds): midnight of
\* today, then setUTCDate(start.getUTCDate() + i) on a copy for each i
nextNDatesUTC(n, t) ==
    LET start == CivilFromDays(t \div DayOf)
    IN  [i \in 1..n |-> FormatYMD(NormalizeYMD(start.y, start.m, start.d + (i - 1)))]

-----------------------------------------------------------------------------
(* Upstream outcomes: what an awaited axios / OpenAI call settles with *)

\* a call that resolved with payload d
Ok(d) == [ok |-> TRUE, status |-> 200, data |-> d]
\* a call that rejected: status 0 is an error without e.response (network)
Fail(s) == [ok |-> FALSE, status |-> s, data |-> "error_body"]

ErrorStatuses == {0, 401, 403, 500}
Failures == {Fail(s) : s \in ErrorStatuses}

\* geocoding payloads: [] / [{lat, lon, name, country}] / [null] / a non-array
GeoPayloads == {"empty", "match", "nullitem", "nonarray"}
GeoOutcomes == {Ok(d) : d \in GeoPayloads} \cup Failures

\* an upstream day_summary record, by the field paths the handlers probe
DayRaw(td, ta, tmin, tmax, w1, w2, w3, w4, pt, rt, r) ==
    [t_day |-> td, t_average |-> ta, t_min |-> tmin, t_max |-> tmax,
     wind_max_speed |-> w1, wind_max_speed_flat |-> w2,
     wind_speed_max |-> w3, wind_speed |-> w4,
     precipitation_total |-> pt, rain_total |-> rt, rain |-> r]

U == Undef

\* the day_summary payloads of the multi-day loops
DayPayloads ==
    { DayRaw(Num(790), U, U, U,  Num(512), U, U, U,  U, U, U),
      DayRaw(Num(800), Num(1500), U, U,  U, U, U, U,  Num(0), U, U),
      DayRaw(U, Num(2400), Num(100), Num(200),  U, Num(340), U, U,  Num(124), U, Num(900)),
      DayRaw(U, U, Num(2320), Num(2500),  U, U, U, Num(260),  U, Num(4), Obj),
      DayRaw(U, U, U, U,  U, U, Num(780), U,  U, U, Num(26)),
      DayRaw(Num(796), U, U, U,  U, U, U, U,  U, U, Str) }

DayOutcomes == {Ok(d) : d \in DayPayloads} \cup Failures

-----------------------------------------------------------------------------
(* Day summaries and advice, src/bk-server.js *)

\* the inline mapping of /weather3: first present candidate per field
Weather3Row(date, data) ==
    LET tempAvg == Coalesce(data.t_day,
                     Coalesce(data.t_average,
                       Coalesce(HalfSum(data.t_min, data.t_max), Null)))
        windMax == Coalesce(data.wind_max_speed,
                     Coalesce(data.wind_max_speed_flat,
                       Coalesce(data.wind_speed_max,
                         Coalesce(data.wind_speed, Num(0)))))
        rainTotal == Coalesce(data.precipitation_total,
                       Coalesce(data.rain_total,
                         Coalesce(data.rain, Num(0))))
    IN  [day |-> date,
         temp_avg_c |-> IF ~Nullish(tempAvg) THEN ToFixed1(ToNumber(tempAvg)) ELSE Null,
         wind_max_ms |-> ToFixed1(ToNumber(OrElse(windMax, Num(0)))),
         rain_mm |-> ToFixed1(ToNumber(OrElse(rainTotal, Num(0))))]

\* the row pushed when a day's fetch fails without 401/403
DefaultRow(date) ==
    [day |-> date, temp_avg_c |-> Null, wind_max_ms |-> Num(0), rain_mm |-> Num(0)]

\* x > 0
GreaterThanZero(x) == ToNumber(x).k = "num" /\ ToNumber(x).v > 0

\* mutant: the comparison is >= 0
Umbrella_IncludesZero(days) ==
    \E i \in 1..Len(days) :
        LET x == ToNumber(OrElse(days[i].rain_mm, Num(0)))
        IN  x.k = "num" /\ x.v >= 0

\* days.some(d => (d.rain_mm || 0) > 0)
Umbrella(days) ==
    \E i \in 1..Len(days) : GreaterThanZero(OrElse(days[i].rain_mm, Num(0)))

\* xs.reduce((a, b) => a + b, 0) on numbers, null (0) and NaN / undefined (NaN)
RECURSIVE SumValues(_)
SumValues(xs) ==
    IF xs = <<>> THEN Num(0)
    ELSE LET h == ToNumber(xs[Len(xs)])
             t == SumValues(SubSeq(xs, 1, Len(xs) - 1))
         IN  IF h.k = "num" /\ t.k = "num" THEN Num(t.v + h.v) ELSE NaN

\* mutant: the lower threshold is inclusive (mean <= 8 is Cold)
Band_ColdInclusive(sum, n) ==
    IF sum.k # "num" \/ n = 0 THEN "Hot"
    ELSE IF sum.v <= 8 * 100 * n THEN "Cold"
    ELSE IF sum.v <= 24 * 100 * n THEN "Mild"
    ELSE "Hot"

\* the band of the quotient sum / n against the fixed thresholds 8 and 24
Band(sum, n) ==
    IF sum.k # "num" \/ n = 0 THEN "Hot"
    ELSE IF sum.v < 8 * 100 * n THEN "Cold"
    ELSE IF sum.v <= 24 * 100 * n THEN "Mild"
    ELSE "Hot"

\* +(sum / n).toFixed(1)
MeanFixed1(sum, n) ==
    IF sum.k # "num" \/ n = 0 THEN NaN ELSE Num(RoundTenRat(sum.v, n))

\* packingAdvice(days) of bk-server.js
packingAdvice(days) ==
    LET temps == SelectSeq([i \in 1..Len(days) |-> days[i].temp_avg_c], IsNumberType)
        sum == SumValues(temps)
        n == Len(temps)
    IN  [umbrella |-> Umbrella(days),
         packing |-> IF n = 0 THEN "Unknown" ELSE Band(sum, n),
         mean_temp_c |-> IF n = 0 THEN Null ELSE MeanFixed1(sum, n)]

\* JSON.stringify of a day row
RowJSON(r) ==
    [day |-> r.day, temp_avg_c |-> ToJSON(r.temp_avg_c),
     wind_max_ms |-> ToJSON(r.wind_max_ms), rain_mm |-> ToJSON(r.rain_mm)]

RowsJSON(rows) == [i \in 1..Len(rows) |-> RowJSON(rows[i])]

-----------------------------------------------------------------------------
(* Air quality: thresholds, per-day summary (bk-server.js), alerts (part_001) *)

\* Object.keys(GOOD) / Object.keys(GOOD_THRESHOLDS): the table's own order
GoodKeys == <<"pm2_5", "pm10", "no2", "so2", "o3", "co">>

\* GOOD[key], in hundredths
GOOD(key) == 100 * (CASE key = "pm2_5" -> 12
                      [] key = "pm10" -> 54
                      [] key = "no2" -> 53
                      [] key = "so2" -> 35
                      [] key = "o3" -> 70
                      [] key = "co" -> 4400)

\* key.toUpperCase().replace("_", "")
PollutantName(key) == CASE key = "pm2_5" -> "PM25"
                        [] key = "pm10" -> "PM10"
                        [] key = "no2" -> "NO2"
                        [] key = "so2" -> "SO2"
                        [] key = "o3" -> "O3"
                        [] key = "co" -> "CO"

\* c[key] of a components object, given as its [key, val] entries in order
Lookup(c, key) ==
    IF \E i \in 1..Len(c) : c[i].key = key
    THEN c[CHOOSE i \in 1..Len(c) : c[i].key = key].val
    ELSE Undef

\* mutant: the threshold is inclusive
ExceedsGood_Inclusive(v, limit) == v.k = "num" /\ v.v >= limit

\* v > limit for a value of type number
ExceedsGood(v, limit) == v.k = "num" /\ v.v > limit

\* the rank of a character in UTF-16 code unit order ("-" sorts before digits)
CharRank(ch) == IF ch = "-" THEN 0
                ELSE CHOOSE n \in 1..10 : DigitChar[n] = ch

\* a < b as Array.prototype.sort() compares strings
RECURSIVE StrLess(_, _)
StrLess(a, b) ==
    IF a = <<>> THEN b # <<>>
    ELSE IF b = <<>> THEN FALSE
    ELSE IF Head(a) = Head(b) THEN StrLess(Tail(a), Tail(b))
    ELSE CharRank(Head(a)) < CharRank(Head(b))

\* mutant: the keys are left in first-seen order
SortKeys_Unsorted(ks) == ks

\* keys.sort() on distinct strings
RECURSIVE SortKeys(_)
SortKeys(ks) ==
    IF ks = <<>> THEN <<>>
    ELSE LET m == CHOOSE i \in 1..Len(ks) :
                      \A j \in 1..Len(ks) : j = i \/ StrLess(ks[i], ks[j])
         IN  <<ks[m]>> \o SortKeys(SubSeq(ks, 1, m - 1) \o SubSeq(ks, m + 1, Len(ks)))

\* xs.slice(0, n)
Slice0(xs, n) == SubSeq(xs, 1, IF Len(xs) < n THEN Len(xs) ELSE n)

\* Object.keys(byDay): the distinct day keys of the items, in first-seen order
RECURSIVE DayKeys(_)
DayKeys(list) ==
    IF list = <<>> THEN <<>>
    ELSE LET front == DayKeys(SubSeq(list, 1, Len(list) - 1))
             key == ISODate(list[Len(list)].dt)
         IN  IF \E i \in 1..Len(front) : front[i] = key THEN front
             ELSE Append(front, key)

\* the items of one day, in list order
ItemsOfDay(list, day) == SelectSeq(list, LAMBDA it : ISODate(it.dt) = day)

\* Math.max(...xs) over values already numbers or NaN
RECURSIVE MaxValues(_)
MaxValues(xs) ==
    IF Len(xs) = 1 THEN ToNumber(xs[1])
    ELSE LET h == ToNumber(xs[Len(xs)])
             t == MaxValues(SubSeq(xs, 1, Len(xs) - 1))
         IN  IF h.k # "num" \/ t.k # "num" THEN NaN
             ELSE IF h.v > t.v THEN h ELSE t

\* maxComp[key] after the loop over the day's components objects
RECURSIVE MaxComp(_, _)
MaxComp(comps, key) ==
    IF comps = <<>> THEN Undef
    ELSE LET prev == MaxComp(SubSeq(comps, 1, Len(comps) - 1), key)
             v == Lookup(comps[Len(comps)], key)
         IN  IF IsNumberType(v)
             THEN (IF prev.k = "num" /\ prev.v > v.v THEN prev ELSE v)
             ELSE prev

\* the alerts loop of summarizeAirForecast over Object.keys(GOOD), from key k on
RECURSIVE AirAlertsFrom(_, _)
AirAlertsFrom(comps, k) ==
    IF k > Len(GoodKeys) THEN <<>>
    ELSE LET key == GoodKeys[k]
             v == MaxComp(comps, key)
         IN  (IF IsNumberType(v) /\ ExceedsGood(v, GOOD(key))
              THEN <<[pollutant |-> PollutantName(key),
                      value_max |-> ToFixed1(v),
                      good_max |-> GOOD(key)]>>
              ELSE <<>>) \o AirAlertsFrom(comps, k + 1)

\* summarizeAirForecast(list) of bk-server.js, list an array of non-null items
\* with valid dt
summarizeAirForecast(list) ==
    LET days == Slice0(SortKeys(DayKeys(list)), 3)
    IN  [d \in 1..Len(days) |->
            LET items == ItemsOfDay(list, days[d])
                aqi == [i \in 1..Len(items) |-> Coalesce(items[i].aqi, Num(100))]
                withComps == SelectSeq(items, LAMBDA it : Truthy(it.components))
                comps == [i \in 1..Len(withComps) |-> withComps[i].entries]
            IN  [day |-> days[d],
                 aqi_max |-> ToJSON(MaxValues(aqi)),
                 alerts |-> AirAlertsFrom(comps, 1)]]

\* round p/q (p >= 0, q > 0) to the nearest integer: +x.toFixed(0)
RoundRat(p, q) == (2 * p + q) \div (2 * q)

\* the loop of buildPollutionAlerts over Object.keys(GOOD_THRESHOLDS), from k on
RECURSIVE PollutionAlertsFrom(_, _)
PollutionAlertsFrom(c, k) ==
    IF k > Len(GoodKeys) THEN <<>>
    ELSE LET key == GoodKeys[k]
             val == Lookup(c, key)
         IN  (IF IsNumberType(val) /\ ExceedsGood(val, GOOD(key))
              THEN <<[pollutant |-> PollutantName(key),
                      value |-> ToFixed1(val),
                      good_max |-> GOOD(key),
                      over |-> ToFixed1(Num(val.v - GOOD(key))),
                      pct |-> RoundRat(100 * val.v, GOOD(key))]>>
              ELSE <<>>) \o PollutionAlertsFrom(c, k + 1)

\* buildPollutionAlerts(components) of part_001; item "none" is its null
buildPollutionAlerts(hasComponents, entries) ==
    IF ~hasComponents THEN <<>> ELSE PollutionAlertsFrom(entries, 1)

\* an air sample: dt in seconds (-1: missing or invalid), main.aqi, and the
\* components object (components is Obj with its entries, or Undef)
AirItem(dt, aqi, entries) ==
    [isnull |-> FALSE, dt |-> dt, aqi |-> aqi, components |-> Obj, entries |-> entries]
AirItemBare(dt, aqi) ==
    [isnull |-> FALSE, dt |-> dt, aqi |-> aqi, components |-> Undef, entries |-> <<>>]
NullItem == [isnull |-> TRUE, dt |-> -1, aqi |-> Undef, components |-> Undef, entries |-> <<>>]

KV(key, val) == [key |-> key, val |-> val]

\* components objects, keys in the order upstream wrote them
ComponentSets ==
    { <<KV("pm2_5", Num(1200))>>,
      <<KV("co", Num(440010)), KV("o3", Num(4000)), KV("pm2_5", Num(1530))>>,
      <<KV("o3", Num(7010)), KV("so2", Num(3500)), KV("no2", Num(5310)),
        KV("pm10", Num(5400)), KV("nh3", Num(99900))>>,
      <<KV("pm10", Num(5410)), KV("so2", Str), KV("no2", Num(5300))>>,
      <<KV("so2", Num(3510)), KV("pm2_5", Num(1210))>> }

\* sample times: two on 2024-01-15, one on 2024-01-16, one invalid
AirTimes == {19737 * DayOf + 3600, 19737 * DayOf + 14 * 3600, 19738 * DayOf, -1}

AirItems ==
    {AirItem(t, a, c) : t \in AirTimes, a \in {Num(200), Num(400)}, c \in ComponentSets}
    \cup {AirItemBare(t, Undef) : t \in AirTimes}
    \cup {NullItem}

MaxAirLen == 2

SeqsUpTo(S, n) == UNION {[1..m -> S] : m \in 0..n}

\* an air payload: data.list is an array, absent, or a non-iterable value
AirList(items) == [list |-> "array", items |-> items]
AirPayloads ==
    {AirList(l) : l \in SeqsUpTo(AirItems, MaxAirLen)}
    \cup {[list |-> "absent", items |-> <<>>], [list |-> "noniterable", items |-> <<>>]}

\* longer lists in any order: samples on 2024-01-15 (two), -16, -17 and -18,
\* each with an index and a PM2.5 value of its own
LongLen == 4
LongAirTimes == {19737 * DayOf + 3600, 19737 * DayOf + 14 * 3600, 19738 * DayOf,
                 19739 * DayOf + 5 * 3600, 19740 * DayOf}
LongAirItem(t) ==
    CASE t = 19737 * DayOf + 3600 -> AirItem(t, Num(100), <<KV("pm2_5", Num(1000))>>)
      [] t = 19737 * DayOf + 14 * 3600 -> AirItem(t, Num(300), <<KV("pm2_5", Num(1300))>>)
      [] t = 19738 * DayOf -> AirItem(t, Num(200), <<KV("pm2_5", Num(1400))>>)
      [] t = 19739 * DayOf + 5 * 3600 -> AirItem(t, Num(500), <<KV("pm2_5", Num(1500))>>)
      [] OTHER -> AirItem(t, Num(400), <<KV("pm2_5", Num(1600))>>)
LongAirPayloads ==
    {AirList([i \in 1..LongLen |-> LongAirItem(ts[i])]) : ts \in [1..LongLen -> LongAirTimes]}

AirOutcomes == {Ok(d) : d \in AirPayloads \cup LongAirPayloads} \cup Failures

\* whether iterating the list throws: for...of over a non-iterable, item.dt of
\* a null item, toISOString() of an invalid date
AirListThrows(d) ==
    \/ d.list = "noniterable"
    \/ \E i \in 1..Len(d.items) : d.items[i].isnull \/ d.items[i].dt < 0

-----------------------------------------------------------------------------
(* The request *)

VARIABLES
    endpoint,   \* the route of the request, "none" before it arrives
    pc,         \* "idle", the await the handler is suspended at, or "done"
    now,        \* what new Date() read (seconds since the epoch), 0 before it is called
    dates,      \* const dates = nextNDatesUTC(3)
    out,        \* the day rows pushed so far (out / weatherDays)
    issued,     \* upstream calls issued, in order: [api, arg]
    results,    \* what the settled calls settled with, in the order of issued
    responses   \* responses sent: [status, body]

vars == <<endpoint, pc, now, dates, out, issued, results, responses>>

\* request clocks: 2023-12-30 23:00, 2024-02-28 00:00, 2024-01-15 12:00 (UTC)
Clocks == {19721 * DayOf + 23 * 3600, 19781 * DayOf, 19737 * DayOf + 12 * 3600}

\* ?city= as Express parses it: absent, blank, a name, or repeated (an array)
CityQueries == {"missing", "blank", "name", "array"}

Init ==
    /\ endpoint = "none"
    /\ pc = "idle"
    /\ now = 0
    /\ dates = <<>>
    /\ out = <<>>
    /\ issued = <<>>
    /\ results = <<>>
    /\ responses = <<>>

\* res.status(st).json(body), after which the handler returns
Respond(st, body) ==
    /\ responses' = Append(responses, [status |-> st, body |-> body])
    /\ pc' = "done"

\* mutant: no catch, the rejection is unhandled and nothing is sent
CatchAll_Unhandled(o) ==
    /\ pc' = "done"
    /\ UNCHANGED responses

\* the outer catch: res.status(s || 500).json(d || { error: e.message })
CatchAll(o) ==
    Respond(IF o.status # 0 THEN o.status ELSE 500,
            IF o.status # 0 THEN [kind |-> "upstream_body"] ELSE [kind |-> "error"])

\* a TypeError / RangeError thrown by the handler's own code
Thrown == Fail(0)

Issue(api, arg) == issued' = Append(issued, [api |-> api, arg |-> arg])
Settle(o) == results' = Append(results, o)
Pending == Len(issued) = Len(results) + 1

-----------------------------------------------------------------------------
(* GET /weather3 *)

Weather3_Start ==
    /\ pc = "idle"
    /\ \E city \in CityQueries :
         /\ endpoint' = "weather3"
         /\ IF city \in {"missing", "blank"}
            THEN /\ Respond(400, [kind |-> "error"])
                 /\ UNCHANGED issued
            ELSE IF city = "array"
            THEN \* (req.query.city || "").trim is not a function
                 /\ CatchAll(Thrown)
                 /\ UNCHANGED issued
            ELSE /\ Issue("geocode", <<>>)
                 /\ pc' = "geo"
                 /\ UNCHANGED responses
    /\ UNCHANGED <<now, dates, out, results>>

\* mutant: the length check is missing, data[0] of [] is destructured
GeocodeResult_NoLengthCheck(o) ==
    IF ~o.ok THEN o
    ELSE IF o.data = "nonarray" THEN Ok("none")
    ELSE IF o.data \in {"nullitem", "empty"} THEN Thrown
    ELSE Ok("match")

\* geocode(city) of bk-server.js, settled with o: "none" is its null
GeocodeResult(o) ==
    IF ~o.ok THEN o
    ELSE IF o.data \in {"empty", "nonarray"} THEN Ok("none")
    ELSE IF o.data = "nullitem" THEN Thrown
    ELSE Ok("match")

Weather3_Geo ==
    /\ pc = "geo" /\ endpoint = "weather3"
    /\ \E o \in GeoOutcomes :
         /\ Settle(o)
         /\ LET g == GeocodeResult(o)
            IN  IF ~g.ok
                THEN CatchAll(g) /\ UNCHANGED <<issued, dates, now>>
                ELSE IF g.data = "none"
                THEN Respond(404, [kind |-> "error"]) /\ UNCHANGED <<issued, dates, now>>
                ELSE /\ now' \in Clocks
                     /\ dates' = nextNDatesUTC(3, now')
                     /\ Issue("day_summary", dates'[1])
                     /\ pc' = "day"
                     /\ UNCHANGED responses
    /\ UNCHANGED <<endpoint, out>>

\* mutant: no try around the fetch, every failure ends the loop
Weather3_LoopBody_NoCatch(rows, date, o) ==
    IF o.ok THEN [fatal |-> FALSE, rows |-> Append(rows, Weather3Row(date, o.data))]
    ELSE [fatal |-> TRUE, rows |-> rows]

\* mutant: a day whose fetch failed transiently is fetched again
Weather3_LoopBody_Retry(rows, date, o) ==
    IF o.ok THEN [fatal |-> FALSE, rows |-> Append(rows, Weather3Row(date, o.data))]
    ELSE IF o.status \in {401, 403} THEN [fatal |-> TRUE, rows |-> rows]
    ELSE [fatal |-> FALSE, rows |-> rows]

\* mutant: 401 / 403 handled like any other failure
Weather3_LoopBody_AuthSwallowed(rows, date, o) ==
    IF o.ok THEN [fatal |-> FALSE, rows |-> Append(rows, Weather3Row(date, o.data))]
    ELSE [fatal |-> FALSE, rows |-> Append(rows, DefaultRow(date))]

\* the body of the for loop for one date, o being what its fetch settled with:
\* the rows after it, or "fatal" for the 401 / 403 return
Weather3_LoopBody(rows, date, o) ==
    IF o.ok THEN [fatal |-> FALSE, rows |-> Append(rows, Weather3Row(date, o.data))]
    ELSE IF o.status \in {401, 403} THEN [fatal |-> TRUE, rows |-> rows]
    ELSE [fatal |-> FALSE, rows |-> Append(rows, DefaultRow(date))]

Weather3_Day ==
    /\ pc = "day" /\ endpoint = "weather3"
    /\ \E o \in DayOutcomes :
         /\ Settle(o)
         /\ \E step \in {Weather3_LoopBody(out, dates[Len(out) + 1], o)} :
                /\ out' = step.rows
                /\ IF step.fatal
                   THEN Respond(o.status, [kind |-> "error"]) /\ UNCHANGED issued
                   ELSE IF Len(step.rows) < Len(dates)
                   THEN /\ Issue("day_summary", dates[Len(step.rows) + 1])
                        /\ UNCHANGED <<pc, responses>>
                   ELSE \E advice \in {packingAdvice(step.rows)} :
                            /\ Respond(200, [kind |-> "weather3",
                                             forecast |-> RowsJSON(step.rows),
                                             umbrella |-> advice.umbrella,
                                             packing |-> advice.packing,
                                             mean_temp_c |-> ToJSON(advice.mean_temp_c)])
                            /\ UNCHANGED issued
    /\ UNCHANGED <<endpoint, now, dates>>

-----------------------------------------------------------------------------
(* GET /air3 *)

Air3_Start ==
    /\ pc = "idle"
    /\ \E city \in CityQueries :
         /\ endpoint' = "air3"
         /\ IF city \in {"missing", "blank"}
            THEN /\ Respond(400, [kind |-> "error"])
                 /\ UNCHANGED issued
            ELSE IF city = "array"
            THEN /\ CatchAll(Thrown)
                 /\ UNCHANGED issued
            ELSE /\ Issue("geocode", <<>>)
                 /\ pc' = "geo"
                 /\ UNCHANGED responses
    /\ UNCHANGED <<now, dates, out, results>>

Air3_Geo ==
    /\ pc = "geo" /\ endpoint = "air3"
    /\ \E o \in GeoOutcomes :
         /\ Settle(o)
         /\ LET g == GeocodeResult(o)
            IN  IF ~g.ok
                THEN CatchAll(g) /\ UNCHANGED issued
                ELSE IF g.data = "none"
                THEN Respond(404, [kind |-> "error"]) /\ UNCHANGED issued
                ELSE /\ Issue("air_forecast", <<>>)
                     /\ pc' = "air"
                     /\ UNCHANGED responses
    /\ UNCHANGED <<endpoint, now, dates, out>>

Air3_Air ==
    /\ pc = "air" /\ endpoint = "air3"
    /\ \E o \in AirOutcomes :
         /\ Settle(o)
         /\ IF ~o.ok THEN CatchAll(o)
            ELSE IF AirListThrows(o.data) THEN CatchAll(Thrown)
            ELSE Respond(200, [kind |-> "air3",
                               forecast |-> summarizeAirForecast(o.data.items)])
    /\ UNCHANGED <<endpoint, now, dates, out, issued>>

-----------------------------------------------------------------------------
(* GET /owm/air (part_001) *)

\* the geocoding step of the part_001 handlers: !geo.data?.length, then
\* destructuring geo.data[0]
GeocodeFirst(o) ==
    IF ~o.ok THEN o
    ELSE IF o.data \in {"empty", "nonarray"} THEN Ok("none")
    ELSE IF o.data = "nullitem" THEN Thrown
    ELSE Ok("match")

OwmAir_Start ==
    /\ pc = "idle"
    /\ \E city \in CityQueries :
         /\ endpoint' = "owm_air"
         /\ IF city \in {"missing", "blank"}
            THEN /\ Respond(400, [kind |-> "error"])
                 /\ UNCHANGED issued
            ELSE \* .toString() joins a repeated parameter into one name
                 /\ Issue("geocode", <<>>)
                 /\ pc' = "geo"
                 /\ UNCHANGED responses
    /\ UNCHANGED <<now, dates, out, results>>

OwmAir_Geo ==
    /\ pc = "geo" /\ endpoint = "owm_air"
    /\ \E o \in GeoOutcomes :
         /\ Settle(o)
         /\ LET g == GeocodeFirst(o)
            IN  IF ~g.ok
                THEN CatchAll(g) /\ UNCHANGED issued
                ELSE IF g.data = "none"
                THEN Respond(404, [kind |-> "error"]) /\ UNCHANGED issued
                ELSE /\ Issue("air_current", <<>>)
                     /\ pc' = "air"
                     /\ UNCHANGED responses
    /\ UNCHANGED <<endpoint, now, dates, out>>

\* air.data?.list?.[0]?.components || null, as [has, entries]
FirstComponents(d) ==
    IF d.list = "array" /\ Len(d.items) > 0 /\ ~d.items[1].isnull
       /\ Truthy(d.items[1].components)
    THEN [has |-> TRUE, entries |-> d.items[1].entries]
    ELSE [has |-> FALSE, entries |-> <<>>]

OwmAir_Air ==
    /\ pc = "air" /\ endpoint = "owm_air"
    /\ \E o \in AirOutcomes :
         /\ Settle(o)
         /\ IF ~o.ok THEN CatchAll(o)
            ELSE LET comp == FirstComponents(o.data)
                 IN  Respond(200, [kind |-> "owm_air",
                                   alerts |-> buildPollutionAlerts(comp.has, comp.entries)])
    /\ UNCHANGED <<endpoint, now, dates, out, issued>>

-----------------------------------------------------------------------------
(* GET /api/weather (part_001): 3-hour slots bucketed by UTC day *)

\* a forecast slot: dt in seconds (-1: missing or invalid), main?.temp in
\* Kelvin, wind?.speed, rain?.["3h"]
Slot(dt, temp, wind, rain) ==
    [isnull |-> FALSE, dt |-> dt, temp |-> temp, wind |-> wind, rain |-> rain]
NullSlot == [isnull |-> TRUE, dt |-> -1, temp |-> Undef, wind |-> Undef, rain |-> Undef]

SlotTimes == {19737 * DayOf + 3 * 3600, 19737 * DayOf + 21 * 3600, 19738 * DayOf,
              19739 * DayOf + 9 * 3600, 19740 * DayOf, -1}
SlotTemps == {Num(28115), Num(28105), Undef}
SlotWindRain == {<<Num(350), Num(0)>>, <<Undef, Undef>>, <<Num(720), Num(124)>>}

Slots ==
    {Slot(t, k, wr[1], wr[2]) : t \in SlotTimes, k \in SlotTemps, wr \in SlotWindRain}
    \cup {NullSlot}

MaxSlots == 2

SlotPayloads ==
    {AirList(l) : l \in SeqsUpTo(Slots, MaxSlots)}
    \cup {[list |-> "absent", items |-> <<>>], [list |-> "noniterable", items |-> <<>>]}

\* longer lists in any order: slots on 2024-01-15 (two), -16, -17 and -18, each
\* with a temperature, wind and rain of its own
LongSlotTimes == {19737 * DayOf + 3 * 3600, 19737 * DayOf + 21 * 3600, 19738 * DayOf,
                  19739 * DayOf + 9 * 3600, 19740 * DayOf}
LongSlot(t) ==
    CASE t = 19737 * DayOf + 3 * 3600 -> Slot(t, Num(28115), Num(350), Num(0))
      [] t = 19737 * DayOf + 21 * 3600 -> Slot(t, Num(28315), Num(720), Num(120))
      [] t = 19738 * DayOf -> Slot(t, Num(28515), Num(410), Num(50))
      [] t = 19739 * DayOf + 9 * 3600 -> Slot(t, Num(29015), Num(900), Undef)
      [] OTHER -> Slot(t, Num(29815), Num(150), Num(30))
LongSlotPayloads ==
    {AirList([i \in 1..LongLen |-> LongSlot(ts[i])]) : ts \in [1..LongLen -> LongSlotTimes]}

SlotOutcomes == {Ok(d) : d \in SlotPayloads \cup LongSlotPayloads} \cup Failures

\* K2C(sum / n): +(k - 273.15).toFixed(1)
K2C(sum, n) ==
    IF sum.k # "num" THEN NaN ELSE Num(RoundTenRat(sum.v - 27315 * n, n))

\* summarizeThreeDays(list) of part_001, list an array of non-null slots with
\* valid dt
summarizeThreeDays(list) ==
    LET next3 == Slice0(SortKeys(DayKeys(list)), 3)
    IN  [d \in 1..Len(next3) |->
            LET box == ItemsOfDay(list, next3[d])
                temps == [i \in 1..Len(box) |-> box[i].temp]
                wind == [i \in 1..Len(box) |-> Coalesce(box[i].wind, Num(0))]
                rain == SumValues([i \in 1..Len(box) |-> Coalesce(box[i].rain, Num(0))])
            IN  [day |-> next3[d],
                 temp_avg_c |-> K2C(SumValues(temps), Len(temps)),
                 wind_max_ms |-> ToFixed1(MaxValues(wind)),
                 rain_mm |-> ToFixed1(rain)]]

\* packingAdvice(summaries) of part_001
packingAdvice_part001(summaries) ==
    LET sum == SumValues([i \in 1..Len(summaries) |-> summaries[i].temp_avg_c])
        n == Len(summaries)
    IN  [umbrella |-> Umbrella(summaries),
         packing |-> Band(sum, n),
         mean_temp_c |-> MeanFixed1(sum, n)]

ApiWeather_Start ==
    /\ pc = "idle"
    /\ \E city \in CityQueries :
         /\ endpoint' = "api_weather"
         /\ IF city \in {"missing", "blank"}
            THEN /\ Respond(400, [kind |-> "error"])
                 /\ UNCHANGED issued
            ELSE /\ Issue("geocode", <<>>)
                 /\ pc' = "geo"
                 /\ UNCHANGED responses
    /\ UNCHANGED <<now, dates, out, results>>

ApiWeather_Geo ==
    /\ pc = "geo" /\ endpoint = "api_weather"
    /\ \E o \in GeoOutcomes :
         /\ Settle(o)
         /\ LET g == GeocodeFirst(o)
            IN  IF ~g.ok
                THEN CatchAll(g) /\ UNCHANGED issued
                ELSE IF g.data = "none"
                THEN Respond(404, [kind |-> "error"]) /\ UNCHANGED issued
                ELSE /\ Issue("forecast", <<>>)
                     /\ pc' = "forecast"
                     /\ UNCHANGED responses
    /\ UNCHANGED <<endpoint, now, dates, out>>

ApiWeather_Forecast ==
    /\ pc = "forecast" /\ endpoint = "api_weather"
    /\ \E o \in SlotOutcomes :
         /\ Settle(o)
         /\ IF ~o.ok THEN CatchAll(o)
            ELSE IF AirListThrows(o.data) THEN CatchAll(Thrown)
            ELSE \E forecast \in {summarizeThreeDays(o.data.items)} :
                 \E advice \in {packingAdvice_part001(forecast)} :
                     Respond(200, [kind |-> "api_weather",
                                   forecast |-> RowsJSON(forecast),
                                   umbrella |-> advice.umbrella,
                                   packing |-> advice.packing,
                                   mean_temp_c |-> ToJSON(advice.mean_temp_c)])
    /\ UNCHANGED <<endpoint, now, dates, out, issued>>

-----------------------------------------------------------------------------
(* GET /api/day_summary_city (part_001) *)

\* ?date= against /^\d{4}-\d{2}-\d{2}$/, and process.env.OPENWEATHER_API_KEY
DateQueries == {"valid", "invalid"}
ApiKeys == {"set", "unset"}

\* the date the single-day request asks for
QueryDate == FormatYMD([y |-> 2024, m |-> 1, d |-> 15])

\* packing of the single day
SingleDayPacking(t) ==
    IF Nullish(t) THEN "Unknown"
    ELSE IF t.k # "num" THEN "Hot"
    ELSE IF t.v < 8 * 100 THEN "Cold"
    ELSE IF t.v <= 24 * 100 THEN "Mild"
    ELSE "Hot"

DaySummaryCity_Start ==
    /\ pc = "idle"
    /\ \E city \in CityQueries, date \in DateQueries, key \in ApiKeys :
         /\ endpoint' = "day_summary_city"
         /\ IF city \in {"missing", "blank"} \/ date = "invalid"
            THEN /\ Respond(400, [kind |-> "error"])
                 /\ UNCHANGED issued
            ELSE IF key = "unset"
            THEN /\ Respond(500, [kind |-> "error"])
                 /\ UNCHANGED issued
            ELSE /\ Issue("geocode", <<>>)
                 /\ pc' = "geo"
                 /\ UNCHANGED responses
    /\ UNCHANGED <<now, dates, out, results>>

DaySummaryCity_Geo ==
    /\ pc = "geo" /\ endpoint = "day_summary_city"
    /\ \E o \in GeoOutcomes :
         /\ Settle(o)
         /\ LET g == GeocodeResult(o)
            IN  IF ~g.ok
                THEN CatchAll(g) /\ UNCHANGED issued
                ELSE IF g.data = "none"
                THEN Respond(404, [kind |-> "error"]) /\ UNCHANGED issued
                ELSE /\ Issue("day_summary", QueryDate)
                     /\ pc' = "day"
                     /\ UNCHANGED responses
    /\ UNCHANGED <<endpoint, now, dates, out>>

DaySummaryCity_Day ==
    /\ pc = "day" /\ endpoint = "day_summary_city"
    /\ \E o \in DayOutcomes :
         /\ Settle(o)
         /\ IF ~o.ok
            THEN IF o.status \in {401, 403}
                 THEN Respond(o.status, [kind |-> "error_with_hint"])
                 ELSE CatchAll(o)
            ELSE LET normalized == Weather3Row(QueryDate, o.data)
                 IN  Respond(200, [kind |-> "day_summary",
                                   forecast |-> <<RowJSON(normalized)>>,
                                   umbrella |-> GreaterThanZero(normalized.rain_mm),
                                   packing |-> SingleDayPacking(normalized.temp_avg_c)])
    /\ UNCHANGED <<endpoint, now, dates, out, issued>>

-----------------------------------------------------------------------------
(* GET /pack: weather loop, air forecast, text generation *)

\* the inline mapping of /pack: as /weather3, without the wind_speed_max path
PackRow(date, ds) ==
    LET tempAvg == Coalesce(ds.t_day,
                     Coalesce(ds.t_average,
                       Coalesce(HalfSum(ds.t_min, ds.t_max), Null)))
        windMax == Coalesce(ds.wind_max_speed,
                     Coalesce(ds.wind_max_speed_flat,
                       Coalesce(ds.wind_speed, Num(0))))
        rainTotal == Coalesce(ds.precipitation_total,
                       Coalesce(ds.rain_total,
                         Coalesce(ds.rain, Num(0))))
    IN  [day |-> date,
         temp_avg_c |-> IF ~Nullish(tempAvg) THEN ToFixed1(ToNumber(tempAvg)) ELSE Null,
         wind_max_ms |-> ToFixed1(ToNumber(OrElse(windMax, Num(0)))),
         rain_mm |-> ToFixed1(ToNumber(OrElse(rainTotal, Num(0))))]

\* the body of /pack's for loop for one date: there is no try around the fetch,
\* so a rejected fetch leaves the loop for the handler's catch
Pack_LoopBody(rows, date, o) ==
    IF o.ok THEN [thrown |-> FALSE, rows |-> Append(rows, PackRow(date, o.data))]
    ELSE [thrown |-> TRUE, rows |-> rows]

\* umbrella, packingBand and mean_temp_c as /pack computes them inline
PackAdvice(weatherDays) ==
    LET temps == SelectSeq([i \in 1..Len(weatherDays) |-> weatherDays[i].temp_avg_c],
                           LAMBDA v : ~Nullish(v))
        sum == SumValues(temps)
        n == IF Len(temps) = 0 THEN 1 ELSE Len(temps)
    IN  [umbrella |-> Umbrella(weatherDays),
         packing |-> Band(sum, n),
         mean_temp_c |-> MeanFixed1(sum, n)]

\* byDay.get(d)?.aqi_max || null after the loop over the air list
PackAqiMax(items, d) ==
    LET mine == ItemsOfDay(items, d)
        m == MaxValues(<<Num(0)>> \o [i \in 1..Len(mine) |-> OrElse(mine[i].aqi, Num(0))])
    IN  OrElse(m, Null)

\* the day_summary payloads of /pack requests
PackDayPayloads ==
    { DayRaw(Num(790), U, U, U,  Num(512), U, U, U,  U, U, U),
      DayRaw(U, Num(2400), U, U,  U, U, Num(780), U,  Num(124), U, U),
      DayRaw(U, U, U, U,  U, U, U, Num(260),  U, U, U) }

PackDayOutcomes == {Ok(d) : d \in PackDayPayloads} \cup Failures

\* the air forecast payloads of /pack requests
PackAirPayloads ==
    { AirList(<<>>),
      AirList(<<AirItemBare(19737 * DayOf + 3600, Num(400)),
                AirItemBare(19738 * DayOf, Undef)>>),
      AirList(<<NullItem>>),
      [list |-> "absent", items |-> <<>>],
      [list |-> "noniterable", items |-> <<>>] }

PackAirOutcomes == {Ok(d) : d \in PackAirPayloads} \cup Failures

\* the generated text, as tokens: a code fence (``` or ```json), prose, the
\* braces, the members of an object ("checklist": [...], "notes": "..."), and
\* the literal null
Tokens == {"fence", "prose", "{", "}", "members", "null"}

MaxTextLen == 3

Texts == SeqsUpTo(Tokens, MaxTextLen)

\* oa.responses.create settles with output_text, or rejects with an error that
\* has no .response
LLMOutcomes == {Ok(t) : t \in Texts} \cup {Fail(0)}

\* text.replace(/```json\s*/gi, "").replace(/```/g, "").trim()
StripFences(text) == SelectSeq(text, LAMBDA tok : tok # "fence")

\* JSON.parse(text): the value, or "SyntaxError"
JSONParse(text) ==
    IF text = <<"{", "members", "}">> THEN "object"
    ELSE IF text = <<"{", "}">> THEN "empty_object"
    ELSE IF text = <<"null">> THEN "null"
    ELSE "SyntaxError"

\* text.match(/\{[\s\S]*\}/): from the first { to the last }, <<>> for no match
MatchBraces(text) ==
    LET opens == {i \in 1..Len(text) : text[i] = "{"}
        closes == {i \in 1..Len(text) : text[i] = "}"}
    IN  IF opens = {} THEN <<>>
        ELSE LET a == CHOOSE i \in opens : \A j \in opens : i <= j
                 after == {i \in closes : i > a}
             IN  IF after = {} THEN <<>>
                 ELSE SubSeq(text, a, CHOOSE i \in after : \A j \in after : j <= i)

\* steps 6 and 7 of /pack on output_text: the response body, or "thrown" when
\* JSON.parse(match[0]) or parsed.checklist throws
PackParse(output) ==
    LET text == StripFences(output)
        first == JSONParse(text)
        match == MatchBraces(text)
        parsed == IF first # "SyntaxError" THEN first
                  ELSE IF match # <<>> THEN JSONParse(match)
                  ELSE "fallback"
    IN  IF parsed \in {"SyntaxError", "null"} THEN [thrown |-> TRUE, body |-> [kind |-> "error"]]
        ELSE [thrown |-> FALSE,
              body |-> [kind |-> "pack",
                        checklist |-> IF parsed = "object" THEN "items" ELSE "empty",
                        notes |-> IF parsed = "object" THEN <<"notes">>
                                  ELSE IF parsed = "fallback" THEN text
                                  ELSE <<>>]]

Pack_Start ==
    /\ pc = "idle"
    /\ \E city \in CityQueries :
         /\ endpoint' = "pack"
         /\ IF city \in {"missing", "blank"}
            THEN /\ Respond(400, [kind |-> "error"])
                 /\ UNCHANGED issued
            ELSE /\ Issue("geocode", <<>>)
                 /\ pc' = "geo"
                 /\ UNCHANGED responses
    /\ UNCHANGED <<now, dates, out, results>>

Pack_Geo ==
    /\ pc = "geo" /\ endpoint = "pack"
    /\ \E o \in GeoOutcomes :
         /\ Settle(o)
         /\ LET g == GeocodeResult(o)
            IN  IF ~g.ok
                THEN CatchAll(g) /\ UNCHANGED <<issued, dates, now>>
                ELSE IF g.data = "none"
                THEN Respond(404, [kind |-> "error"]) /\ UNCHANGED <<issued, dates, now>>
                ELSE /\ now' \in Clocks
                     /\ dates' = nextNDatesUTC(3, now')
                     /\ Issue("day_summary", dates'[1])
                     /\ pc' = "day"
                     /\ UNCHANGED responses
    /\ UNCHANGED <<endpoint, out>>

Pack_Day ==
    /\ pc = "day" /\ endpoint = "pack"
    /\ \E o \in PackDayOutcomes :
         /\ Settle(o)
         /\ \E step \in {Pack_LoopBody(out, dates[Len(out) + 1], o)} :
                /\ out' = step.rows
                /\ IF step.thrown
                   THEN CatchAll(o) /\ UNCHANGED issued
                   ELSE IF Len(step.rows) < Len(dates)
                   THEN /\ Issue("day_summary", dates[Len(step.rows) + 1])
                        /\ UNCHANGED <<pc, responses>>
                   ELSE /\ Issue("air_forecast", <<>>)
                        /\ pc' = "air"
                        /\ UNCHANGED responses
    /\ UNCHANGED <<endpoint, now, dates>>

Pack_Air ==
    /\ pc = "air" /\ endpoint = "pack"
    /\ \E o \in PackAirOutcomes :
         /\ Settle(o)
         /\ IF ~o.ok THEN CatchAll(o) /\ UNCHANGED issued
            ELSE IF AirListThrows(o.data) THEN CatchAll(Thrown) /\ UNCHANGED issued
            ELSE \E advice \in {PackAdvice(out)} :
                   /\ Issue("llm",
                        [weather3 |-> [umbrella |-> advice.umbrella,
                                       packing |-> advice.packing,
                                       mean_temp_c |-> ToJSON(advice.mean_temp_c),
                                       forecast |-> RowsJSON(out)],
                         air3 |-> [i \in 1..Len(dates) |->
                                      [day |-> dates[i],
                                       aqi_max |-> PackAqiMax(o.data.items, dates[i])]]])
                   /\ pc' = "llm"
                   /\ UNCHANGED responses
    /\ UNCHANGED <<endpoint, now, dates, out>>

Pack_LLM ==
    /\ pc = "llm" /\ endpoint = "pack"
    /\ \E o \in LLMOutcomes :
         /\ Settle(o)
         /\ IF ~o.ok THEN CatchAll(o)
            ELSE \E r \in {PackParse(o.data)} :
                   IF r.thrown THEN CatchAll(Thrown) ELSE Respond(200, r.body)
    /\ UNCHANGED <<endpoint, now, dates, out, issued>>

-----------------------------------------------------------------------------

Next ==
    \/ Weather3_Start \/ Weather3_Geo \/ Weather3_Day
    \/ Air3_Start \/ Air3_Geo \/ Air3_Air
    \/ OwmAir_Start \/ OwmAir_Geo \/ OwmAir_Air
    \/ ApiWeather_Start \/ ApiWeather_Geo \/ ApiWeather_Forecast
    \/ DaySummaryCity_Start \/ DaySummaryCity_Geo \/ DaySummaryCity_Day
    \/ Pack_Start \/ Pack_Geo \/ Pack_Day \/ Pack_Air \/ Pack_LLM

Spec == Init /\ [][Next]_vars

\* The event loop runs every continuation whose await has settled, and every
\* upstream call settles (returns or fails).
FairSpec == Spec /\ WF_vars(Next)

-----------------------------------------------------------------------------
(* Properties *)

\* the settled day_summary fetches of a /weather3 or /pack request: results 2..
DayResults == SubSeq(results, 2, Len(results))

IsAuthFailure(o) == ~o.ok /\ o.status \in {401, 403}

\* C1: in /weather3, once geocoding has succeeded and no day fetch failed with
\* 401 / 403, the finished request has sent a 200 response whose forecast has
\* exactly 3 entries, for the 3 consecutive UTC dates from the request date on,
\* in order; a failed day is {null, 0, 0} and a fetched day is the mapping of
\* its own upstream record.
C1_Weather3ThreeDays ==
    (/\ endpoint = "weather3" /\ pc = "done"
     /\ Len(results) >= 1 /\ results[1] = Ok("match")
     /\ \A i \in 1..Len(DayResults) : ~IsAuthFailure(DayResults[i]))
    => /\ Len(responses) = 1
       /\ responses[1].status = 200
       /\ responses[1].body.kind = "weather3"
       /\ Len(DayResults) = 3
       /\ LET f == responses[1].body.forecast
          IN  /\ Len(f) = 3
              /\ \A i \in 1..3 :
                   /\ f[i].day = ISODate(now + (i - 1) * DayOf)
                   /\ IF DayResults[i].ok
                      THEN f[i] = RowJSON(Weather3Row(f[i].day, DayResults[i].data))
                      ELSE /\ f[i].temp_avg_c = Null
                           /\ f[i].wind_max_ms = Num(0)
                           /\ f[i].rain_mm = Num(0)

\* day 2 failed with a network error, days 1 and 3 were fetched, over a year end
C1_Witness ==
    /\ endpoint = "weather3" /\ pc = "done"
    /\ Len(DayResults) = 3
    /\ DayResults[1].ok /\ DayResults[2] = Fail(0) /\ DayResults[3].ok
    /\ Len(responses) = 1 /\ responses[1].status = 200
    /\ Len(responses[1].body.forecast) = 3
    /\ responses[1].body.forecast[2].temp_avg_c = Null
    /\ responses[1].body.forecast[1].temp_avg_c.k = "num"
    /\ responses[1].body.forecast[3].day = FormatYMD([y |-> 2024, m |-> 1, d |-> 1])

\* C2: in /weather3, a day fetch that fails with 401 / 403 ends the request at
\* once with an error response of that status: no later fetch is issued, and
\* no forecast response is sent.
C2_AuthFailureIsFatal ==
    endpoint = "weather3" =>
      \A i \in 1..Len(DayResults) :
        IsAuthFailure(DayResults[i]) =>
          /\ Len(DayResults) = i
          /\ Len(issued) = i + 1
          /\ issued[Len(issued)].arg = dates[i]
          /\ pc = "done"
          /\ Len(responses) = 1
          /\ responses[1].status = DayResults[i].status
          /\ responses[1].body.kind = "error"

\* day 1 failed transiently, day 2 was fetched, day 3 answered 403
C2_Witness ==
    /\ endpoint = "weather3"
    /\ Len(DayResults) = 3
    /\ DayResults[1] = Fail(500) /\ DayResults[2].ok /\ DayResults[3] = Fail(403)
    /\ Len(responses) = 1 /\ responses[1].status = 403

\* C3: in every endpoint that geocodes, zero geocoding matches give a 404 and
\* no weather or air-quality call is issued for the request.
C3_NotFoundNoUpstream ==
    (Len(results) >= 1 /\ results[1] = Ok("empty")) =>
      /\ pc = "done"
      /\ Len(responses) = 1
      /\ responses[1].status = 404
      /\ Len(issued) = 1
      /\ issued[1].api = "geocode"

C3_Witness ==
    /\ endpoint = "pack"
    /\ Len(results) = 1 /\ results[1] = Ok("empty")
    /\ Len(responses) = 1 /\ responses[1].status = 404
    /\ \A i \in 1..Len(issued) : issued[i].api \notin {"day_summary", "air_forecast", "llm"}

AggregatingEndpoints == {"weather3", "air3", "pack"}

\* C4: with every upstream call settling, every request to /weather3, /air3
\* and /pack ends in a response, and never sends a second one.
C4_AlwaysOneResponse ==
    /\ [](endpoint \in AggregatingEndpoints => Len(responses) <= 1)
    /\ (endpoint \in AggregatingEndpoints) ~> (pc = "done" /\ Len(responses) = 1)

\* a /pack request whose text generation call failed after all else succeeded
C4_Witness ==
    /\ endpoint = "pack" /\ pc = "done"
    /\ Len(results) = 6 /\ ~results[6].ok
    /\ Len(responses) = 1 /\ responses[1].status = 500

-----------------------------------------------------------------------------
(* Advice results: the advice of a /weather3 or /api/weather response, and the
   weather summary /pack puts in its prompt *)

AdviceOf(x) ==
    [umbrella |-> x.umbrella, packing |-> x.packing,
     mean_temp_c |-> x.mean_temp_c, forecast |-> x.forecast]

AdviceResults ==
    {AdviceOf(responses[i].body) :
        i \in {j \in 1..Len(responses) :
                 responses[j].body.kind \in {"weather3", "api_weather"}}}
    \cup {AdviceOf(issued[i].arg.weather3) :
        i \in {j \in 1..Len(issued) : issued[j].api = "llm"}}

\* the temperatures of a forecast that are numbers
UsableTemps(f) ==
    SelectSeq([i \in 1..Len(f) |-> f[i].temp_avg_c], LAMBDA v : v.k = "num")

RECURSIVE SeqSum(_)
SeqSum(xs) == IF xs = <<>> THEN 0 ELSE xs[1].v + SeqSum(Tail(xs))

AllTempsAreNumbers(f) == Len(f) > 0 /\ Len(UsableTemps(f)) = Len(f)

\* C5 as stated: the band matches the reported mean_temp_c.
C5_BandMatchesReportedMean ==
    \A a \in AdviceResults :
        (a.mean_temp_c.k = "num" /\ AllTempsAreNumbers(a.forecast)) =>
            LET m == a.mean_temp_c.v
            IN  /\ a.packing = "Cold" <=> m < 800
                /\ a.packing = "Mild" <=> (800 <= m /\ m <= 2400)
                /\ a.packing = "Hot" <=> m > 2400

\* C5 amended: the band is taken from the unrounded mean of the temperatures
\* (Cold iff below 8, Mild iff from 8 to 24, Hot iff above 24) and mean_temp_c
\* is that mean rounded to one decimal; so a reported mean below 8 is Cold,
\* above 24 is Hot, strictly between is Mild, while a reported 8.0 comes with
\* Cold or Mild and a reported 24.0 with Mild or Hot.
C5_BandFromUnroundedMean ==
    \A a \in AdviceResults :
        AllTempsAreNumbers(a.forecast) =>
            LET n == Len(a.forecast)
                total == SeqSum(UsableTemps(a.forecast))
                m == a.mean_temp_c
            IN  /\ a.packing = "Cold" <=> total < 800 * n
                /\ a.packing = "Mild" <=> (800 * n <= total /\ total <= 2400 * n)
                /\ a.packing = "Hot" <=> total > 2400 * n
                /\ m.k = "num"
                /\ 20 * n * m.v - 100 * n <= 20 * total
                /\ 20 * total <= 20 * n * m.v + 100 * n
                /\ m.v < 800 => a.packing = "Cold"
                /\ m.v > 2400 => a.packing = "Hot"
                /\ (800 < m.v /\ m.v < 2400) => a.packing = "Mild"
                /\ m.v = 800 => a.packing \in {"Cold", "Mild"}
                /\ m.v = 2400 => a.packing \in {"Mild", "Hot"}

\* days 7.9, 8.0, 8.0: the mean 7.97 is Cold and is reported as 8.0
C5_Witness ==
    \E a \in AdviceResults :
        /\ Len(a.forecast) = 3 /\ AllTempsAreNumbers(a.forecast)
        /\ SeqSum(UsableTemps(a.forecast)) = 2390
        /\ a.packing = "Cold"
        /\ a.mean_temp_c = Num(800)

\* C6 as stated: advice derived from days none of which has a usable
\* temperature has mean_temp_c null and packing "Unknown".
C6_NoTemperatureIsUnknown ==
    \A a \in AdviceResults :
        Len(UsableTemps(a.forecast)) = 0 =>
            a.mean_temp_c = Null /\ a.packing = "Unknown"

\* C7: umbrella is true iff some day's rain_mm is strictly greater than 0.
C7_UmbrellaIffRain ==
    \A a \in AdviceResults :
        a.umbrella <=>
            \E i \in 1..Len(a.forecast) :
                a.forecast[i].rain_mm.k = "num" /\ a.forecast[i].rain_mm.v > 0

\* three days with rain 0, a non-numeric rain value (NaN, written as null) and
\* 1.2 mm: the umbrella flag is set
C7_Witness ==
    \E a \in AdviceResults :
        /\ Len(a.forecast) = 3
        /\ a.forecast[1].rain_mm = Num(0)
        /\ a.forecast[2].rain_mm = Null
        /\ a.forecast[3].rain_mm = Num(120)
        /\ a.umbrella

-----------------------------------------------------------------------------
(* Pollutant alerts *)

\* the fixed Good thresholds of the claim, in table order, in hundredths
GoodTable ==
    << [key |-> "pm2_5", name |-> "PM25", limit |-> 1200],
       [key |-> "pm10", name |-> "PM10", limit |-> 5400],
       [key |-> "no2", name |-> "NO2", limit |-> 5300],
       [key |-> "so2", name |-> "SO2", limit |-> 3500],
       [key |-> "o3", name |-> "O3", limit |-> 7000],
       [key |-> "co", name |-> "CO", limit |-> 440000] >>

\* the numeric concentrations of pollutant key in a set of components objects
Concentrations(objects, key) ==
    UNION { {c[i].val.v : i \in {j \in 1..Len(c) : c[j].key = key /\ c[j].val.k = "num"}} :
            c \in objects }

SetMax(S) == CHOOSE x \in S : \A y \in S : y <= x

\* the table rows whose pollutant has a concentration above its threshold
Breaches(objects) ==
    SelectSeq(GoodTable, LAMBDA t : \E v \in Concentrations(objects, t.key) : v > t.limit)

\* alerts are exactly the breaches, in table order, one per pollutant, each
\* with its threshold and the (maximal) concentration to one decimal
AlertsAre(alerts, objects, valueOf(_)) ==
    LET hit == Breaches(objects)
    IN  /\ Len(alerts) = Len(hit)
        /\ \A i \in 1..Len(hit) :
             /\ alerts[i].pollutant = hit[i].name
             /\ alerts[i].good_max = hit[i].limit
             /\ valueOf(alerts[i]) =
                  Num(RoundTenRat(SetMax(Concentrations(objects, hit[i].key)), 1))

\* the components objects of the air samples of one UTC date
ComponentsOfDay(items, day) ==
    {items[i].entries :
        i \in {j \in 1..Len(items) :
                 ISODate(items[j].dt) = day /\ items[j].components.k = "obj"}}

\* C8: an alert is emitted for a pollutant iff its concentration (for /air3:
\* its maximum over the day) is present, numeric and strictly above its Good
\* threshold; at most one alert per pollutant, in threshold-table order.
C8_AlertsIffAboveGood ==
    \A r \in 1..Len(responses) :
        LET body == responses[r].body
        IN  /\ body.kind = "air3" =>
                 \A d \in 1..Len(body.forecast) :
                     AlertsAre(body.forecast[d].alerts,
                               ComponentsOfDay(results[2].data.items, body.forecast[d].day),
                               LAMBDA a : a.value_max)
            /\ body.kind = "owm_air" =>
                 LET d == results[2].data
                     objects == IF d.list = "array" /\ Len(d.items) > 0
                                   /\ d.items[1].components.k = "obj"
                                THEN {d.items[1].entries} ELSE {}
                 IN  AlertsAre(body.alerts, objects, LAMBDA a : a.value)

\* one day with two samples, keys out of table order, PM10 and SO2 exactly at
\* their thresholds: alerts for PM25, NO2, O3, CO in that order
C8_Witness ==
    \E r \in 1..Len(responses) :
        /\ responses[r].body.kind = "air3"
        /\ Len(responses[r].body.forecast) = 1
        /\ LET alerts == responses[r].body.forecast[1].alerts
           IN  [i \in 1..Len(alerts) |-> alerts[i].pollutant] = <<"PM25", "NO2", "O3", "CO">>

-----------------------------------------------------------------------------
(* /pack: text generation output and per-day failures *)

\* the text holds a well-formed JSON object somewhere
ContainsJSONObject(text) ==
    \E a \in 1..Len(text) : \E b \in a..Len(text) :
        SubSeq(text, a, b) \in {<<"{", "members", "}">>, <<"{", "}">>}

\* C9 as stated: in /pack, generated text without any valid JSON object still
\* gives a successful response with an empty checklist and the text as notes.
C9_MalformedTextFallsBack ==
    (/\ endpoint = "pack" /\ pc = "done"
     /\ Len(results) = 6 /\ results[6].ok
     /\ ~ContainsJSONObject(StripFences(results[6].data)))
    => /\ Len(responses) = 1
       /\ responses[1].status = 200
       /\ responses[1].body.kind = "pack"
       /\ responses[1].body.checklist = "empty"
       /\ responses[1].body.notes = StripFences(results[6].data)

\* C10 as stated: in /pack, a day fetch that fails without 401 / 403 is
\* replaced by a default row and the request goes on to all 3 days.
C10_PackSwallowsDayFailure ==
    endpoint = "pack" =>
      \A i \in 1..3 :
        (i <= Len(DayResults) /\ ~DayResults[i].ok /\ ~IsAuthFailure(DayResults[i])) =>
          /\ Len(out) >= i
          /\ out[i] = DefaultRow(dates[i])
          /\ Len(responses) = 1 => responses[1].status = 200

-----------------------------------------------------------------------------
(* Bucketing by UTC date *)

DigitVal(ch) == (CHOOSE n \in 1..10 : DigitChar[n] = ch) - 1

\* a YYYY-MM-DD string as the number YYYYMMDD, which orders dates by calendar
DateOrd(s) ==
    LET v(i) == DigitVal(s[i])
    IN  (v(1) * 1000 + v(2) * 100 + v(3) * 10 + v(4)) * 10000
        + (v(6) * 10 + v(7)) * 100 + v(9) * 10 + v(10)

StrictlyChronological(f) ==
    \A i \in 1..Len(f) - 1 : DateOrd(f[i].day) < DateOrd(f[i + 1].day)

\* C11 as stated: every /api/weather forecast has exactly 3 day entries with
\* distinct dates in chronological order (the handler reads no clock, so the
\* first date is whatever date the first bucket has).
C11_ForecastHasThreeDays ==
    \A r \in 1..Len(responses) :
        responses[r].body.kind = "api_weather" =>
            /\ Len(responses[r].body.forecast) = 3
            /\ StrictlyChronological(responses[r].body.forecast)

\* the UTC day number (days since 1970-01-01) of a sample
DayNumber(it) == it.dt \div DayOf

\* the n smallest elements of a set of integers, ascending
RECURSIVE Smallest(_, _)
Smallest(S, n) ==
    IF n = 0 \/ S = {} THEN <<>>
    ELSE LET m == CHOOSE x \in S : \A y \in S : x <= y
         IN  <<m>> \o Smallest(S \ {m}, n - 1)

\* an output of a bucketer: its entries are for the 3 earliest day numbers
\* among the samples, ascending, and the entry of a date is what the bucketer
\* gives on the samples of that date alone
BucketedByDate(forecast, items, entryOf(_)) ==
    LET kept == Smallest({DayNumber(items[i]) : i \in 1..Len(items)}, 3)
    IN  /\ Len(forecast) = Len(kept)
        /\ StrictlyChronological(forecast)
        /\ \A d \in 1..Len(kept) :
             /\ forecast[d].day = ISODate(kept[d] * DayOf)
             /\ forecast[d] =
                  entryOf(SelectSeq(items, LAMBDA it : DayNumber(it) = kept[d]))

\* C12: in /api/weather and /air3 each sample is bucketed by its UTC date, the
\* output has the 3 earliest dates present, strictly increasing, and an entry
\* is built from the samples of its own date only, whatever the list order.
C12_ThreeEarliestDates ==
    \A r \in 1..Len(responses) :
        LET body == responses[r].body
        IN  /\ body.kind = "api_weather" =>
                 BucketedByDate(body.forecast, results[2].data.items,
                                LAMBDA own : RowJSON(summarizeThreeDays(own)[1]))
            /\ body.kind = "air3" =>
                 BucketedByDate(body.forecast, results[2].data.items,
                                LAMBDA own : summarizeAirForecast(own)[1])

\* slots of 4 dates, the latest first and the earliest last: the forecast has
\* the dates 15, 16, 17 January and nothing of the 18th
C12_Witness ==
    /\ endpoint = "api_weather" /\ Len(responses) = 1 /\ Len(results) = 2
    /\ responses[1].body.kind = "api_weather"
    /\ LET items == results[2].data.items
           f == responses[1].body.forecast
       IN  /\ Len(items) = 4
           /\ [i \in 1..4 |-> DayNumber(items[i])] = <<19740, 19738, 19739, 19737>>
           /\ [i \in 1..Len(f) |-> DateOrd(f[i].day)] = <<20240115, 20240116, 20240117>>

\* the temperatures (Kelvin) that are present among the slots of one date
PresentTemps(items, day) ==
    LET own == SelectSeq(items, LAMBDA it : ISODate(it.dt) = day)
    IN  SelectSeq([i \in 1..Len(own) |-> own[i].temp], LAMBDA v : v.k = "num")

\* C13 as stated: in /api/weather each day's temp_avg_c is the mean of the
\* present slot temperatures of that date, in Celsius to one decimal, and null
\* when no slot of the date has a temperature.
C13_MeanOverPresentTemps ==
    \A r \in 1..Len(responses) :
        responses[r].body.kind = "api_weather" =>
            LET f == responses[r].body.forecast
            IN  \A d \in 1..Len(f) :
                    LET temps == PresentTemps(results[2].data.items, f[d].day)
                        n == Len(temps)
                    IN  f[d].temp_avg_c =
                            IF n = 0 THEN Null
                            ELSE Num(RoundTenRat(SeqSum(temps) - 27315 * n, n))

-----------------------------------------------------------------------------
(* Normalization of a day_summary record *)

\* the first present (neither undefined nor null) value of the candidates, or
\* the given default when none is present
FirstPresent(candidates, default) ==
    IF \E i \in 1..Len(candidates) : ~Nullish(candidates[i])
    THEN candidates[CHOOSE i \in 1..Len(candidates) :
                       /\ ~Nullish(candidates[i])
                       /\ \A j \in 1..i - 1 : Nullish(candidates[j])]
    ELSE default

\* the midpoint candidate: present when both temperature.min and .max are
Midpoint(rec) ==
    IF Nullish(rec.t_min) \/ Nullish(rec.t_max) THEN Undef
    ELSE HalfSum(rec.t_min, rec.t_max)

\* the row the claim expects for an upstream record
ExpectedRow(rec) ==
    LET t == FirstPresent(<<rec.t_day, rec.t_average, Midpoint(rec)>>, Null)
        w == FirstPresent(<<rec.wind_max_speed, rec.wind_max_speed_flat,
                            rec.wind_speed_max, rec.wind_speed>>, Num(0))
        r == FirstPresent(<<rec.precipitation_total, rec.rain_total, rec.rain>>, Num(0))
    IN  [temp_avg_c |-> IF t = Null THEN Null ELSE ToFixed1(ToNumber(t)),
         wind_max_ms |-> ToFixed1(ToNumber(w)),
         rain_mm |-> ToFixed1(ToNumber(r))]

\* C14 as stated: every row that /weather3 or /pack builds from a fetched
\* record holds, per field, the first present candidate; temp_avg_c is null
\* when no temperature candidate is present, wind and rain are 0 when none of
\* theirs is.
C14_FirstPresentCandidate ==
    endpoint \in {"weather3", "pack"} =>
        \A i \in 1..Len(out) :
            (i <= Len(DayResults) /\ DayResults[i].ok) =>
                LET e == ExpectedRow(DayResults[i].data)
                IN  /\ out[i].temp_avg_c = e.temp_avg_c
                    /\ out[i].wind_max_ms = e.wind_max_ms
                    /\ out[i].rain_mm = e.rain_mm

-----------------------------------------------------------------------------
(* Order of the day fetches *)

\* the day_summary calls issued so far, as their date arguments
DayFetches ==
    LET calls == SelectSeq(issued, LAMBDA c : c.api = "day_summary")
    IN  [i \in 1..Len(calls) |-> calls[i].arg]

\* C15: in /weather3 the day fetches are issued one at a time, each only
\* after the one before it has settled, for the dates in chronological order,
\* each date at most once; a failed day is not fetched again.
C15_SequentialNoRetry ==
    endpoint = "weather3" =>
        /\ Len(issued) <= Len(results) + 1
        /\ Len(DayFetches) <= 3
        /\ \A i \in 1..Len(DayFetches) :
             /\ DayFetches[i] = dates[i]
             /\ DayFetches[i] = ISODate(now + (i - 1) * DayOf)
             /\ issued[i + 1].api = "day_summary"
             /\ i > 1 => Len(results) >= i
        /\ \A i, j \in 1..Len(DayFetches) : i < j => DayFetches[i] # DayFetches[j]

\* the fetch of day 1 failed, then the fetch of day 2, and day 3 was fetched
\* once: three calls in all
C15_Witness ==
    /\ endpoint = "weather3" /\ pc = "done"
    /\ Len(DayResults) = 3
    /\ DayResults[1] = Fail(500) /\ DayResults[2] = Fail(0) /\ DayResults[3].ok
    /\ Len(DayFetches) = 3

====
